---- MODULE Spec2Model ----
(***************************************************************************)
(* The referral tree of the GLGMLM backend: the User collection (the Node  *)
(* Store), registration under a sponsor (POST /register), the admin        *)
(* operations on users (status, delete), the profile update, and the       *)
(* ambassador's read-only views (GET /earnings, GET /network).             *)
(*                                                                         *)
(* ObjectIds are modelled by a counter (nextId): ids grow with creation    *)
(* time and are never reused.  Emails are opaque values; a code is the     *)
(* pair <<prefix, number>> standing for the string prefix ++ 6 digits.     *)
(***************************************************************************)
EXTENDS Integers, Sequences, FiniteSets, TLC

\* ------------------------------------------------------------------ bounds
MaxUsers == 3        \* ids ever allocated (the seeded document included)
CodeSpace == 2       \* numbers a code can carry (1000000 in the source)
MaxReqs == 2         \* requests in flight at once
MaxDraw == 1         \* largest value drawn for a mock monthly figure
MaxEvents == 2       \* business events booked in the store
MaxLevels == 2       \* largest integer given as ?levels=
EarnUnit == 10       \* what one business event adds to totalEarnings
PurchaseUnit == 100  \* what one business event adds to totalPurchases

\* ------------------------------------------------------------- value space
NoId == -1           \* an absent ObjectId (sponsorId undefined, findOne -> null)
NoCode == <<>>       \* an absent code (ambassadorCode / clientCode undefined)
NoEmail == 0         \* a request body without email
DefaultLevels == 3   \* const { levels = 3 } = req.query

Ids == 0 .. (MaxUsers - 1)
Emails == 1 .. MaxUsers
Roles == {"admin", "ambassador", "client"}
Statuses == {"active", "inactive", "pending"}
Prefixes == {"AMB", "CLI"}
Codes == {<<p, n>> : p \in Prefixes, n \in 0 .. (CodeSpace - 1)}
Phones == {"p0", "p1"}

VARIABLES
    users,      \* the User collection: id -> document, for the stored ids
    nextId,     \* the next ObjectId
    resp,       \* the response of the last request handled
    reqs        \* the requests in flight: slot -> the handler's locals

vars == <<users, nextId, resp, reqs>>

Existing(store) == DOMAIN store

\* ------------------------------------------------------------ the schema
\* A new document with the schema's defaults.
NewUser(email, role, sponsorId, level) ==
    [ email          |-> email,
      role           |-> role,
      status         |-> "pending",
      sponsorId      |-> sponsorId,
      upline         |-> <<>>,
      downline       |-> <<>>,
      level          |-> level,
      ambassadorCode |-> NoCode,
      clientCode     |-> NoCode,
      totalEarnings  |-> 0,
      totalPurchases |-> 0,
      phone          |-> "p0",
      language       |-> "it" ]

SeqToSet(s) == {s[i] : i \in 1 .. Len(s)}

Min(S) == CHOOSE x \in S : \A y \in S : x <= y
Max(S) == CHOOSE x \in S : \A y \in S : x >= y

\* ------------------------------------------------------------ the queries
\* User.findByEmail: the document holding the email, or null.
FindByEmail(store, email) ==
    LET hit == {i \in Existing(store) : store[i].email = email}
    IN  IF hit = {} THEN NoId ELSE Min(hit)

\* User.findByCode: the document holding the code as ambassadorCode or as
\* clientCode, or null.
FindByCode(store, code) ==
    LET hit == {i \in Existing(store) :
                    store[i].ambassadorCode = code \/ store[i].clientCode = code}
    IN  IF hit = {} THEN NoId ELSE Min(hit)

\* User.findById
FindById(store, id) == IF id \in Existing(store) THEN id ELSE NoId

\* ------------------------------------------------- the pre-save middleware
\* generateUniqueCode: the loop draws a number at random and leaves with the
\* first code no document holds in either code field; these are the codes it
\* can return (none when every number of the prefix is taken: it never ends).
GenerateUniqueCode(store, prefix) ==
    {c \in Codes : c[1] = prefix /\ FindByCode(store, c) = NoId}

\* The code prefix the pre-save hook asks for, by role.
RolePrefix(role) ==
    IF role = "ambassador" THEN "AMB"
    ELSE IF role = "client" THEN "CLI"
    ELSE "none"

\* The codes the pre-save hook can give a new document of the role.
NewCodes(store, role) ==
    IF RolePrefix(role) = "none" THEN {NoCode}
    ELSE GenerateUniqueCode(store, RolePrefix(role))

\* Mutant: the code goes to the field of the other role.
PreSaveCodes_Swapped(doc, code) ==
    IF doc.role = "ambassador" THEN [doc EXCEPT !.clientCode = code]
    ELSE IF doc.role = "client" THEN [doc EXCEPT !.ambassadorCode = code]
    ELSE doc

\* pre('save') on a new document: the code goes to the field of the role.
PreSaveCodes(doc, code) ==
    IF doc.role = "ambassador" THEN [doc EXCEPT !.ambassadorCode = code]
    ELSE IF doc.role = "client" THEN [doc EXCEPT !.clientCode = code]
    ELSE doc

\* user.save() of a new document.
SaveNew(store, id, doc, code) ==
    [i \in Existing(store) \cup {id} |->
        IF i = id THEN PreSaveCodes(doc, code) ELSE store[i]]

\* ---------------------------------------------------------- POST /register
\* Mutant: the child takes its sponsor's level, the + 1 forgotten.
UserData_SponsorLevel(store, email, role, sponsor) ==
    IF sponsor # NoId
    THEN NewUser(email, role, sponsor, store[sponsor].level)
    ELSE NewUser(email, role, NoId, 0)

\* userData: sponsorId and level are set only when a sponsor was resolved.
UserData(store, email, role, sponsor) ==
    IF sponsor # NoId
    THEN NewUser(email, role, sponsor, store[sponsor].level + 1)
    ELSE NewUser(email, role, NoId, 0)

\* Mutant: the new id is never pushed on the sponsor's downline.
PushDownline_Forgotten(store, sponsor, id) == store

\* Mutant: the save writes the downline as the request read it plus the new
\* id, so a concurrent append is lost.
PushDownline_Replace(store, sponsor, id) ==
    [store EXCEPT ![sponsor].downline = <<id>>]

\* sponsor.downline.push(user._id); await sponsor.save()
PushDownline(store, sponsor, id) ==
    [store EXCEPT ![sponsor].downline = Append(@, id)]

\* The while loop that builds the upline: sid is currentSponsor.sponsorId.
RECURSIVE UplineWalk(_, _)
UplineWalk(store, sid) ==
    IF sid = NoId THEN <<>>
    ELSE IF FindById(store, sid) = NoId THEN <<sid>>
    ELSE <<sid>> \o UplineWalk(store, store[sid].sponsorId)

\* Build upline chain, starting from the sponsor document in hand.
BuildUpline(store, sponsorDoc) == UplineWalk(store, sponsorDoc.sponsorId)

\* user.upline = upline; await user.save()
SetUpline(store, id, upline) == [store EXCEPT ![id].upline = upline]

\* The store after a registration that passed every check.
Registered(store, id, email, role, sponsor, code) ==
    LET s1 == SaveNew(store, id, UserData(store, email, role, sponsor), code)
    IN  IF sponsor = NoId THEN s1
        ELSE LET s2 == PushDownline(s1, sponsor, id)
             IN  SetUpline(s2, id, BuildUpline(s2, s2[sponsor]))

\* The sponsor a code resolves to (null without a code).
ResolveSponsor(store, sponsorCode) ==
    IF sponsorCode = NoCode THEN NoId ELSE FindByCode(store, sponsorCode)

\* A response: the route, the HTTP status, the error text and the id it is about.
Reply(op, status, error, id) ==
    [op |-> op, status |-> status, error |-> error, id |-> id]

\* The emails a registration is tried with: none, the least one a user holds,
\* or the least one nobody holds (emails are opaque: one held email stands for
\* all held ones, one fresh email for all fresh ones).
FreshEmail(store) ==
    Min({e \in Emails : FindByEmail(store, e) = NoId} \cup {MaxUsers + 1})

HeldEmails(store) == {store[i].email : i \in Existing(store)}

EmailInputs(store) ==
    {NoEmail} \cup {e \in HeldEmails(store) : \A d \in HeldEmails(store) : e <= d}
              \cup ({FreshEmail(store)} \cap Emails)

\* The sponsor codes a registration is tried with: none, a code some user
\* holds, or the least code of a prefix that nobody holds.
HeldCodes(store) ==
    {c \in Codes : FindByCode(store, c) # NoId}

SponsorInputs(store) ==
    LET free == Codes \ HeldCodes(store)
    IN  {NoCode} \cup HeldCodes(store)
                \cup {c \in free : \A d \in free : d[1] = c[1] => c[2] <= d[2]}

\* Mutant: the null check on the resolved sponsor is missing.
SponsorMissing_Never(sponsorCode, sponsor) == FALSE

\* if (sponsorCode) { sponsor = await User.findByCode(...); if (!sponsor) ...
SponsorMissing(sponsorCode, sponsor) == sponsorCode # NoCode /\ sponsor = NoId

\* What the handler answers and does to the store, for a request body and the
\* code the pre-save hook draws; id is the ObjectId of the new document.
RegisterOutcome(store, id, email, role, sponsorCode, code) ==
    LET sponsor == ResolveSponsor(store, sponsorCode)
    IN  IF email = NoEmail
        THEN [store |-> store, status |-> 400, error |-> "Missing required fields"]
        ELSE IF FindByEmail(store, email) # NoId
        THEN [store |-> store, status |-> 400, error |-> "User already exists"]
        ELSE IF SponsorMissing(sponsorCode, sponsor)
        THEN [store |-> store, status |-> 400, error |-> "Invalid sponsor code"]
        ELSE [store |-> Registered(store, id, email, role, sponsor, code),
              status |-> 201, error |-> ""]

Register(email, role, sponsorCode, code) ==
    LET out == RegisterOutcome(users, nextId, email, role, sponsorCode, code)
    IN  IF out.status # 201
        THEN /\ resp' = Reply("register", out.status, out.error, NoId)
             /\ UNCHANGED <<users, nextId, reqs>>
        ELSE /\ nextId < MaxUsers
             /\ code \in NewCodes(users, role)
             /\ UNCHANGED reqs
             /\ users' = out.store
             /\ nextId' = nextId + 1
             /\ resp' = Reply("register", 201, "", nextId)

\* ---------------------------------------------------------------- POST /login
\* What the handler answers; passwordOk is the result of comparePassword and
\* id the user the answer is about (null before the user is known to be let
\* in or refused for its status).
LoginOutcome(store, email, passwordOk) ==
    LET user == FindByEmail(store, email)
    IN  IF email = NoEmail
        THEN [status |-> 400, error |-> "Email and password required", id |-> NoId]
        ELSE IF user = NoId \/ ~passwordOk
        THEN [status |-> 401, error |-> "Invalid credentials", id |-> NoId]
        ELSE IF store[user].status # "active"
        THEN [status |-> 403, error |-> "Account not active", id |-> user]
        ELSE [status |-> 200, error |-> "", id |-> user]

\* The token is issued and lastLogin saved (neither is a field of the model).
Login(email, passwordOk) ==
    LET out == LoginOutcome(users, email, passwordOk)
    IN  /\ UNCHANGED <<users, nextId, reqs>>
        /\ resp' = Reply("login", out.status, out.error, out.id)

\* ------------------------------------------------ authentication middleware
\* Mutant: the status of the token's user is not looked at.
Authorize_NoStatusCheck(store, caller, roles) ==
    IF FindById(store, caller) = NoId
    THEN [status |-> 401, error |-> "Invalid token"]
    ELSE IF roles # {} /\ store[caller].role \notin roles
    THEN [status |-> 403, error |-> "Insufficient permissions"]
    ELSE [status |-> 200, error |-> ""]

\* authenticateToken, then authorizeRoles(roles) when the route names roles:
\* the refusal, or status 200 to go on.  caller is the userId of the token.
Authorize(store, caller, roles) ==
    IF FindById(store, caller) = NoId
    THEN [status |-> 401, error |-> "Invalid token"]
    ELSE IF store[caller].status # "active"
    THEN [status |-> 403, error |-> "Account not active"]
    ELSE IF roles # {} /\ store[caller].role \notin roles
    THEN [status |-> 403, error |-> "Insufficient permissions"]
    ELSE [status |-> 200, error |-> ""]

\* ---------------------------------------------------------- DELETE /:userId
\* User.findByIdAndDelete
RemoveUser(store, userId) == [i \in Existing(store) \ {userId} |-> store[i]]

\* Mutant: the downline check is missing.
DeleteOutcome_NoDownlineCheck(store, userId) ==
    IF FindById(store, userId) = NoId
    THEN [store |-> store, status |-> 404, error |-> "User not found"]
    ELSE [store |-> RemoveUser(store, userId), status |-> 200, error |-> ""]

\* What the handler does to the store once the caller is let in.
DeleteOutcome(store, userId) ==
    IF FindById(store, userId) = NoId
    THEN [store |-> store, status |-> 404, error |-> "User not found"]
    ELSE IF Len(store[userId].downline) > 0
    THEN [store |-> store, status |-> 400,
          error |-> "Cannot delete user with downline"]
    ELSE [store |-> RemoveUser(store, userId), status |-> 200, error |-> ""]

DeleteUser(caller, userId) ==
    LET auth == Authorize(users, caller, {"admin"})
        out  == DeleteOutcome(users, userId)
    IN  /\ UNCHANGED <<nextId, reqs>>
        /\ auth.status = 200
        /\ users' = out.store
        /\ resp' = Reply("delete", out.status, out.error, userId)

\* ------------------------------------------------------ PUT /:userId/status
\* findByIdAndUpdate(userId, { status })
SetStatus(store, userId, status) == [store EXCEPT ![userId].status = status]

\* Mutant: the value is not checked against the enum.
StatusOutcome_NoEnumCheck(store, userId, status) ==
    IF FindById(store, userId) = NoId
    THEN [store |-> store, status |-> 404, error |-> "User not found"]
    ELSE [store |-> SetStatus(store, userId, status), status |-> 200, error |-> ""]

StatusOutcome(store, userId, status) ==
    IF status \notin Statuses
    THEN [store |-> store, status |-> 400, error |-> "Invalid status"]
    ELSE IF FindById(store, userId) = NoId
    THEN [store |-> store, status |-> 404, error |-> "User not found"]
    ELSE [store |-> SetStatus(store, userId, status), status |-> 200, error |-> ""]

UpdateStatus(caller, userId, status) ==
    LET auth == Authorize(users, caller, {"admin"})
        out  == StatusOutcome(users, userId, status)
    IN  /\ UNCHANGED <<nextId, reqs>>
        /\ auth.status = 200
        /\ users' = out.store
        /\ resp' = Reply("status", out.status, out.error, userId)

\* ----------------------------------------------------- PUT /profile/:userId
\* The fields the handler deletes from the body before the update.
SensitiveFields ==
    {"password", "role", "status", "ambassadorCode", "clientCode", "sponsorId",
     "upline", "downline", "level", "totalEarnings", "totalPurchases"}

\* Mutant: sponsorId is not among the fields deleted from the body.
MaskBody_KeepsSponsorId(body) ==
    [f \in DOMAIN body \ (SensitiveFields \ {"sponsorId"}) |-> body[f]]

\* Mutant: status is not among the fields deleted from the body.
MaskBody_KeepsStatus(body) ==
    [f \in DOMAIN body \ (SensitiveFields \ {"status"}) |-> body[f]]

\* Mutant: role is not among the fields deleted from the body.
MaskBody_KeepsRole(body) ==
    [f \in DOMAIN body \ (SensitiveFields \ {"role"}) |-> body[f]]

\* delete updateData.<field>, for each sensitive field
MaskBody(body) == [f \in DOMAIN body \ SensitiveFields |-> body[f]]

\* findByIdAndUpdate(userId, updateData): the fields of the schema named by
\* the update take its values (the schema is strict: other fields are dropped).
ApplyUpdate(doc, update) ==
    [f \in DOMAIN doc |-> IF f \in DOMAIN update THEN update[f] ELSE doc[f]]

ProfileOutcome(store, userId, body) ==
    IF FindById(store, userId) = NoId
    THEN [store |-> store, status |-> 404, error |-> "User not found"]
    ELSE [store |-> [store EXCEPT ![userId] = ApplyUpdate(@, MaskBody(body))],
          status |-> 200, error |-> ""]

\* A value a body can carry for a field: one that differs from what any
\* stored document holds there.
BodyValue(f, phone) ==
    CASE f = "phone"          -> phone
      [] f = "password"       -> "secret"
      [] f = "role"           -> "admin"
      [] f = "status"         -> "active"
      [] f = "ambassadorCode" -> <<"AMB", CodeSpace>>
      [] f = "clientCode"     -> <<"CLI", CodeSpace>>
      [] f = "sponsorId"      -> MaxUsers
      [] f = "upline"         -> <<MaxUsers>>
      [] f = "downline"       -> <<MaxUsers>>
      [] f = "level"          -> MaxUsers + 1
      [] f = "totalEarnings"  -> EarnUnit * (MaxEvents + 1)
      [] f = "totalPurchases" -> PurchaseUnit * (MaxEvents + 1)

\* The request body tried: the phone and every sensitive field at once.
BodyFields == {SensitiveFields \cup {"phone"}}

Body(fields, phone) == [f \in fields |-> BodyValue(f, phone)]

UpdateProfile(caller, userId, body) ==
    LET auth == Authorize(users, caller, {})
        out  == ProfileOutcome(users, userId, body)
    IN  /\ UNCHANGED <<nextId, reqs>>
        /\ auth.status = 200
        /\ IF caller # userId /\ users[caller].role # "admin"
           THEN /\ resp' = Reply("profile", 403, "Access denied", userId)
                /\ UNCHANGED users
           ELSE /\ users' = out.store
                /\ resp' = Reply("profile", out.status, out.error, userId)

\* ---------------------------------------------------------- PUT /preferences
\* The update built from the body: language, notifications, marketing.
Preferences == [language |-> "en", notifications |-> TRUE, marketing |-> FALSE]

\* findByIdAndUpdate(req.user._id, updateData)
UpdatePreferences(caller) ==
    LET auth == Authorize(users, caller, {"client"})
    IN  /\ UNCHANGED <<nextId, reqs>>
        /\ auth.status = 200
        /\ users' = [users EXCEPT ![caller] = ApplyUpdate(@, Preferences)]
        /\ resp' = Reply("preferences", 200, "", caller)

\* --------------------------------------------------------- aggregation stages
RECURSIVE SumField(_, _, _)
\* { $sum: '$field' } over the matched documents
SumField(store, S, field) ==
    IF S = {} THEN 0
    ELSE LET i == Min(S) IN store[i][field] + SumField(store, S \ {i}, field)

RECURSIVE SortAsc(_)
SortAsc(S) == IF S = {} THEN <<>> ELSE <<Min(S)>> \o SortAsc(S \ {Min(S)})

RECURSIVE SortDesc(_)
SortDesc(S) == IF S = {} THEN <<>> ELSE <<Max(S)>> \o SortDesc(S \ {Max(S)})

\* { $match: { sponsorId: id } }
MatchSponsor(store, id) == {i \in Existing(store) : store[i].sponsorId = id}

\* { $match: { upline: id } }: the documents whose upline array holds id
MatchUpline(store, id) ==
    {i \in Existing(store) : id \in SeqToSet(store[i].upline)}

\* { $group: { _id: null, ... } }: one group, or no group for no document
GroupAll(store, S) ==
    IF S = {} THEN <<>>
    ELSE << [ totalEarnings  |-> SumField(store, S, "totalEarnings"),
              totalPurchases |-> SumField(store, S, "totalPurchases"),
              memberCount    |-> Cardinality(S) ] >>

\* { $group: { _id: '$level', ... } }, { $sort: { _id: 1 } }
GroupByLevel(store, S) ==
    LET levels == SortAsc({store[i].level : i \in S})
        bucket(l) == {i \in S : store[i].level = l}
    IN  [k \in 1 .. Len(levels) |->
            [ id             |-> levels[k],
              count          |-> Cardinality(bucket(levels[k])),
              totalEarnings  |-> SumField(store, bucket(levels[k]), "totalEarnings"),
              totalPurchases |-> SumField(store, bucket(levels[k]), "totalPurchases") ]]

\* ------------------------------------------------- external business events
\* Earnings and purchases accumulate through events outside these routes:
\* a sale books a purchase and an earning on the member's document.
BusinessEvent(userId) ==
    /\ userId \in Existing(users)
    /\ SumField(users, Existing(users), "totalEarnings") < EarnUnit * MaxEvents
    /\ users' = [users EXCEPT ![userId].totalEarnings = @ + EarnUnit,
                              ![userId].totalPurchases = @ + PurchaseUnit]
    /\ resp' = Reply("event", 200, "", userId)
    /\ UNCHANGED <<nextId, reqs>>

\* ------------------------------------------------------------- GET /earnings
\* summary: earnings[0]?.field || 0 (totalPurchases is the sum the handler
\* multiplies by the commission rate)
Summary(groups) ==
    IF groups = <<>>
    THEN [totalEarnings |-> 0, totalPurchases |-> 0, memberCount |-> 0]
    ELSE [totalEarnings  |-> groups[1].totalEarnings,
          totalPurchases |-> groups[1].totalPurchases,
          memberCount    |-> groups[1].memberCount]

\* Mutant: the summary matches on upline, like the stage by level.
EarningsSummary_ByUpline(store, id) ==
    Summary(GroupAll(store, MatchUpline(store, id)))

\* Mutant: the caller is matched with its children.
EarningsSummary_WithRoot(store, id) ==
    Summary(GroupAll(store, MatchSponsor(store, id) \cup {id}))

EarningsSummary(store, id) == Summary(GroupAll(store, MatchSponsor(store, id)))

EarningsByLevel(store, id) == GroupByLevel(store, MatchUpline(store, id))

\* monthly stands for monthlyEarnings, drawn with Math.random at each call.
GetEarnings(caller, monthly) ==
    LET auth == Authorize(users, caller, {"ambassador"})
    IN  /\ UNCHANGED <<users, nextId, reqs>>
        /\ auth.status = 200
        /\ resp' = [op |-> "earnings", status |-> 200, error |-> "",
                         id |-> caller,
                         summary |-> EarningsSummary(users, caller),
                         earningsByLevel |-> EarningsByLevel(users, caller),
                         monthlyEarnings |-> monthly]

\* ---------------------------------------------------------------- GET /stats
\* { $sum: { $cond: [{ $eq: ['$field', value] }, 1, 0] } }
CountWhere(store, S, field, value) ==
    Cardinality({i \in S : store[i][field] = value})

\* basicStats[0] || { every figure 0 }, over the documents the caller sponsors
StatsBasic(store, id) ==
    LET S == MatchSponsor(store, id)
    IN  [ totalMembers     |-> Cardinality(S),
          activeMembers    |-> CountWhere(store, S, "status", "active"),
          totalAmbassadors |-> CountWhere(store, S, "role", "ambassador"),
          totalClients     |-> CountWhere(store, S, "role", "client"),
          totalEarnings    |-> SumField(store, S, "totalEarnings"),
          totalPurchases   |-> SumField(store, S, "totalPurchases") ]

GetStats(caller) ==
    LET auth == Authorize(users, caller, {"ambassador"})
    IN  /\ UNCHANGED <<users, nextId, reqs>>
        /\ auth.status = 200
        /\ resp' = [op |-> "stats", status |-> 200, error |-> "",
                         id |-> caller,
                         basic |-> StatsBasic(users, caller)]

\* ------------------------------------------------------------- GET /dashboard
\* populate('downline'): the stored documents among the ids of the array
Populate(store, ids) == SelectSeq(ids, LAMBDA i : i \in Existing(store))

\* stats of the dashboard, over the populated downline of the caller
DashboardStats(store, id) ==
    LET S == SeqToSet(Populate(store, store[id].downline))
    IN  [ downlineCount          |-> Len(Populate(store, store[id].downline)),
          activeDownline         |-> CountWhere(store, S, "status", "active"),
          totalDownlineEarnings  |-> SumField(store, S, "totalEarnings"),
          totalDownlinePurchases |-> SumField(store, S, "totalPurchases") ]

\* Mutant: the dashboard books the downline's earnings on the caller.
GetDashboard_BooksTotals(caller) ==
    LET auth == Authorize(users, caller, {})
    IN  /\ UNCHANGED <<nextId, reqs>>
        /\ auth.status = 200
        /\ users' = [users EXCEPT ![caller].totalEarnings =
                          DashboardStats(users, caller).totalDownlineEarnings]
        /\ resp' = [op |-> "dashboard", status |-> 200, error |-> "",
                         id |-> caller,
                         stats |-> DashboardStats(users, caller)]

GetDashboard(caller) ==
    LET auth == Authorize(users, caller, {})
    IN  /\ UNCHANGED <<users, nextId, reqs>>
        /\ auth.status = 200
        /\ resp' = [op |-> "dashboard", status |-> 200, error |-> "",
                         id |-> caller,
                         stats |-> DashboardStats(users, caller)]

\* -------------------------------------------------------------- GET /network
\* The ?levels= of the query: absent, an integer, or text that is no number.
LevelQueries ==
    {[kind |-> "absent", val |-> 0], [kind |-> "text", val |-> 0]}
        \cup {[kind |-> "int", val |-> n] : n \in (-1) .. MaxLevels}

\* Mutant: parseInt(levels) || 3, which takes 0 for a missing value.
ParseLevels_ZeroIsDefault(q) ==
    IF q.kind = "absent" \/ (q.kind = "int" /\ q.val = 0)
    THEN [nan |-> FALSE, val |-> DefaultLevels]
    ELSE IF q.kind = "int" THEN [nan |-> FALSE, val |-> q.val]
    ELSE [nan |-> TRUE, val |-> 0]

\* const { levels = 3 } = req.query; parseInt(levels): a number, or NaN
ParseLevels(q) ==
    IF q.kind = "absent" THEN [nan |-> FALSE, val |-> DefaultLevels]
    ELSE IF q.kind = "int" THEN [nan |-> FALSE, val |-> q.val]
    ELSE [nan |-> TRUE, val |-> 0]

\* Mutant: the budget test is off by one (> for >=).
AtLeast_Strict(currentLevel, maxLevel) ==
    ~maxLevel.nan /\ currentLevel > maxLevel.val

\* currentLevel >= maxLevel: every comparison with NaN is false
AtLeast(currentLevel, maxLevel) ==
    ~maxLevel.nan /\ currentLevel >= maxLevel.val

\* Mutant: the order of the children flips from one network call to the next.
FindDownline_FlipsOrder(store, userId) ==
    IF resp.op = "network" /\ resp.network # <<>>
           /\ resp.network[1].id = Max(MatchSponsor(store, resp.id))
    THEN SortAsc(MatchSponsor(store, userId))
    ELSE SortDesc(MatchSponsor(store, userId))

\* User.find({ sponsorId: userId }).sort({ createdAt: -1 }): newest first
FindDownline(store, userId) == SortDesc(MatchSponsor(store, userId))

\* ------------------------------------------------------------- GET /downline
\* find(filter).sort({ createdAt: -1 }).skip(0).limit(10), countDocuments
GetDownline(caller) ==
    LET auth == Authorize(users, caller, {"ambassador"})
    IN  /\ UNCHANGED <<users, nextId, reqs>>
        /\ auth.status = 200
        /\ resp' = [op |-> "downline", status |-> 200, error |-> "",
                         id |-> caller,
                         downline |-> FindDownline(users, caller),
                         total |-> Cardinality(MatchSponsor(users, caller))]

RECURSIVE buildNetworkTree(_, _, _, _)
buildNetworkTree(store, userId, currentLevel, maxLevel) ==
    IF AtLeast(currentLevel, maxLevel) THEN <<>>
    ELSE LET downline == FindDownline(store, userId)
         IN  [k \in 1 .. Len(downline) |->
                [ id       |-> downline[k],
                  level    |-> store[downline[k]].level,
                  children |-> buildNetworkTree(store, downline[k],
                                                currentLevel + 1, maxLevel) ]]

GetNetwork(caller, query) ==
    LET auth == Authorize(users, caller, {"ambassador"})
    IN  /\ UNCHANGED <<users, nextId, reqs>>
        /\ auth.status = 200
        /\ resp' = [op |-> "network", status |-> 200, error |-> "",
                         id |-> caller,
                         query |-> query,
                         network |-> buildNetworkTree(users, caller, 0,
                                                      ParseLevels(query))]

\* The outcome of the random draws of generateUniqueCode: the numbers are
\* interchangeable, so the least free one stands for whichever is drawn.
DrawnCodes(store, role) ==
    LET free == NewCodes(store, role)
    IN  IF free = {} \/ free = {NoCode} THEN free
        ELSE {c \in free : \A d \in free : c[2] <= d[2]}

\* ------------------------------------------------------- requests in flight
Slots == 1 .. MaxReqs

\* A slot without request.
Idle == [kind |-> "idle"]

NoReqs == [s \in Slots |-> Idle]

\* A request takes the first free slot (slots are interchangeable).
FreeSlot(s) ==
    /\ reqs[s] = Idle
    /\ \A t \in Slots : t < s => reqs[t] # Idle

AtPc(s, kind, pc) == reqs[s].kind = kind /\ reqs[s].pc = pc

\* The request ends: its response is sent and its slot is free again.
Respond(s, reply) ==
    /\ resp' = reply
    /\ reqs' = [reqs EXCEPT ![s] = Idle]

\* The request goes on to its next await.
Goto(s, req) ==
    /\ reqs' = [reqs EXCEPT ![s] = req]
    /\ UNCHANGED resp

\* catch (error): res.status(500), 'Registration failed'
RegistrationFailed(id) == Reply("register", 500, "Registration failed", id)

\* ----------------------------------- POST /register, one await after another
\* The locals of the handler; sponsor, sponsorLevel and sponsorSponsorId are
\* the sponsor document as it was read, id the _id once the user is inserted.
RegisterRequest(pc, email, role, sponsorCode) ==
    [ kind |-> "register", pc |-> pc, email |-> email, role |-> role,
      sponsorCode |-> sponsorCode, sponsor |-> NoId, sponsorLevel |-> 0,
      sponsorSponsorId |-> NoId, code |-> NoCode, id |-> NoId ]

\* Where user.save() starts: the code hook awaits only for the roles with a code.
PreSavePc(role) == IF RolePrefix(role) = "none" THEN "insert" ELSE "preSave"

\* Validation, then await User.findByEmail(email).
RegStart(s, email, role, sponsorCode) ==
    /\ FreeSlot(s)
    /\ UNCHANGED <<users, nextId>>
    /\ IF email = NoEmail
       THEN /\ resp' = Reply("register", 400, "Missing required fields", NoId)
            /\ UNCHANGED reqs
       ELSE IF FindByEmail(users, email) # NoId
       THEN /\ resp' = Reply("register", 400, "User already exists", NoId)
            /\ UNCHANGED reqs
       ELSE Goto(s, RegisterRequest(
                        IF sponsorCode # NoCode THEN "findSponsor" ELSE PreSavePc(role),
                        email, role, sponsorCode))

\* await User.findByCode(sponsorCode)
RegFindSponsor(s) ==
    LET req     == reqs[s]
        sponsor == ResolveSponsor(users, req.sponsorCode)
    IN  /\ AtPc(s, "register", "findSponsor")
        /\ UNCHANGED <<users, nextId>>
        /\ IF SponsorMissing(req.sponsorCode, sponsor)
           THEN Respond(s, Reply("register", 400, "Invalid sponsor code", NoId))
           ELSE Goto(s, [req EXCEPT !.pc = PreSavePc(req.role),
                                    !.sponsorCode = NoCode,
                                    !.sponsor = sponsor,
                                    !.sponsorLevel = users[sponsor].level,
                                    !.sponsorSponsorId = users[sponsor].sponsorId])

\* The codes one turn of the loop of generateUniqueCode can draw: the ones of
\* the prefix that are held, and the least free one for the free ones.
CodeDraws(store, role) ==
    {c \in HeldCodes(store) : c[1] = RolePrefix(role)} \cup DrawnCodes(store, role)

\* One turn of the loop: draw a code, await User.findOne; a held code loops.
RegPreSave(s, code) ==
    LET req == reqs[s]
    IN  /\ AtPc(s, "register", "preSave")
        /\ code \in CodeDraws(users, req.role)
        /\ UNCHANGED <<users, nextId>>
        /\ IF FindByCode(users, code) # NoId
           THEN UNCHANGED <<resp, reqs>>
           ELSE Goto(s, [req EXCEPT !.pc = "insert", !.code = code])

\* Mutant: the email carries no unique index.
UniqueIndexViolated_CodesOnly(store, doc) ==
    \E i \in Existing(store) :
        \/ doc.ambassadorCode # NoCode /\ store[i].ambassadorCode = doc.ambassadorCode
        \/ doc.clientCode # NoCode /\ store[i].clientCode = doc.clientCode

\* Mutant: the code fields carry no unique index.
UniqueIndexViolated_EmailOnly(store, doc) ==
    \E i \in Existing(store) : store[i].email = doc.email

\* The unique indexes of the schema: email, and ambassadorCode and clientCode
\* where present (sparse).
UniqueIndexViolated(store, doc) ==
    \E i \in Existing(store) :
        \/ store[i].email = doc.email
        \/ doc.ambassadorCode # NoCode /\ store[i].ambassadorCode = doc.ambassadorCode
        \/ doc.clientCode # NoCode /\ store[i].clientCode = doc.clientCode

\* Mutant: the document is stored without the sponsor's id.
UserDataOf_NoSponsorId(req) ==
    NewUser(req.email, req.role, NoId,
            IF req.sponsor # NoId THEN req.sponsorLevel + 1 ELSE 0)

\* The document of new User(userData), from the sponsor as it was read.
UserDataOf(req) ==
    IF req.sponsor # NoId
    THEN NewUser(req.email, req.role, req.sponsor, req.sponsorLevel + 1)
    ELSE NewUser(req.email, req.role, NoId, 0)

\* The insert of user.save(): refused by a unique index, or stored.
RegInsert(s) ==
    LET req == reqs[s]
        doc == PreSaveCodes(UserDataOf(req), req.code)
    IN  /\ AtPc(s, "register", "insert")
        /\ IF UniqueIndexViolated(users, doc)
           THEN /\ Respond(s, RegistrationFailed(NoId))
                /\ UNCHANGED <<users, nextId>>
           ELSE /\ nextId < MaxUsers
                /\ users' = SaveNew(users, nextId, UserDataOf(req), req.code)
                /\ nextId' = nextId + 1
                /\ Goto(s, [req EXCEPT
                               !.pc = IF req.sponsor # NoId THEN "saveSponsor"
                                      ELSE "lastLogin",
                               !.id = nextId, !.email = NoEmail, !.code = NoCode])

\* Mutant: the failure of the sponsor's save is swallowed.
SponsorSaveFailed_Swallowed(req) == [req EXCEPT !.pc = "saveUpline"]

\* A save that throws leaves the try block: the request is over.
SponsorSaveFailed(req) == Idle

\* sponsor.downline.push(user._id); await sponsor.save(): the $push reaches
\* the stored sponsor, or the save throws (the store refuses the write, or
\* the sponsor is no longer stored: DocumentNotFoundError).
RegSaveSponsor(s, ok) ==
    LET req == reqs[s]
    IN  /\ AtPc(s, "register", "saveSponsor")
        /\ UNCHANGED nextId
        /\ IF ok /\ FindById(users, req.sponsor) # NoId
           THEN /\ users' = PushDownline(users, req.sponsor, req.id)
                /\ Goto(s, [req EXCEPT !.pc = "saveUpline"])
           ELSE /\ UNCHANGED users
                /\ IF SponsorSaveFailed(req) = Idle
                   THEN Respond(s, RegistrationFailed(req.id))
                   ELSE Goto(s, SponsorSaveFailed(req))

\* The upline loop from the sponsor as it was read, then user.upline = upline
\* and await user.save(): an unchanged upline writes nothing, a changed one
\* needs the user to be stored still.
RegSaveUpline(s) ==
    LET req    == reqs[s]
        upline == UplineWalk(users, req.sponsorSponsorId)
    IN  /\ AtPc(s, "register", "saveUpline")
        /\ UNCHANGED nextId
        /\ IF upline = <<>>
           THEN /\ UNCHANGED users
                /\ Goto(s, [req EXCEPT !.pc = "lastLogin"])
           ELSE IF FindById(users, req.id) = NoId
           THEN /\ UNCHANGED users
                /\ Respond(s, RegistrationFailed(req.id))
           ELSE /\ users' = SetUpline(users, req.id, upline)
                /\ Goto(s, [req EXCEPT !.pc = "lastLogin"])

\* user.lastLogin = new Date(); await user.save(); res.status(201)
RegLastLogin(s) ==
    LET req == reqs[s]
    IN  /\ AtPc(s, "register", "lastLogin")
        /\ UNCHANGED <<users, nextId>>
        /\ IF FindById(users, req.id) = NoId
           THEN Respond(s, RegistrationFailed(req.id))
           ELSE Respond(s, Reply("register", 201, "", req.id))

\* ---------------------------------- DELETE /:userId, one await after another
\* Authentication, await User.findById(userId) and the checks on the document.
DelStart(s, caller, userId) ==
    LET auth == Authorize(users, caller, {"admin"})
        out  == DeleteOutcome(users, userId)
    IN  /\ FreeSlot(s)
        /\ auth.status = 200
        /\ UNCHANGED <<users, nextId>>
        /\ IF out.status # 200
           THEN /\ resp' = Reply("delete", out.status, out.error, userId)
                /\ UNCHANGED reqs
           ELSE Goto(s, [kind |-> "delete", pc |-> "remove", userId |-> userId])

\* await User.findByIdAndDelete(userId); res.json
DelRemove(s) ==
    LET req == reqs[s]
    IN  /\ AtPc(s, "delete", "remove")
        /\ UNCHANGED nextId
        /\ users' = RemoveUser(users, req.userId)
        /\ Respond(s, Reply("delete", 200, "", req.userId))

\* ------------------------------------------------------------ specifications
\* The store holds one active admin when the server starts.
SeedAdmin == [NewUser(1, "admin", NoId, 0) EXCEPT !.status = "active"]

Init ==
    /\ users = [i \in {0} |-> SeedAdmin]
    /\ nextId = 1
    /\ resp = Reply("none", 0, "", NoId)
    /\ reqs = NoReqs

RegisterStep ==
    \E email \in EmailInputs(users), role \in Roles,
       sponsorCode \in SponsorInputs(users) :
        \E code \in DrawnCodes(users, role) :
            Register(email, role, sponsorCode, code)

DeleteStep == \E caller \in Ids, userId \in Ids : DeleteUser(caller, userId)

\* The statuses a status update is tried with: the two the authentication
\* tells apart (active or not), and one outside the enum.
StatusInputs == {"active", "pending", "bogus"}

StatusStep ==
    \E caller \in Ids, userId \in Ids, status \in StatusInputs :
        UpdateStatus(caller, userId, status)

\* The sponsorId a body names: an id no document has, or the target itself.
ProfileStep ==
    \E caller \in Ids, userId \in Ids, fields \in BodyFields, phone \in Phones :
        \E sponsorId \in {userId, MaxUsers} :
            UpdateProfile(caller, userId,
                          [Body(fields, phone) EXCEPT !.sponsorId = sponsorId])

\* A login is tried with the email of a stored user, or with none.
LoginStep ==
    \E email \in HeldEmails(users) \cup {NoEmail}, passwordOk \in BOOLEAN :
        Login(email, passwordOk)

PreferencesStep == \E caller \in Ids : UpdatePreferences(caller)

EventStep == \E userId \in Ids : BusinessEvent(userId)


EarningsStep == \E caller \in Ids, monthly \in 0 .. MaxDraw : GetEarnings(caller, monthly)

StatsStep == \E caller \in Ids : GetStats(caller)

DownlineStep == \E caller \in Ids : GetDownline(caller)

DashboardStep == \E caller \in Ids : GetDashboard(caller)

NetworkStep == \E caller \in Ids, query \in LevelQueries : GetNetwork(caller, query)

Next ==
    \/ RegisterStep
    \/ DeleteStep
    \/ StatusStep
    \/ ProfileStep
    \/ PreferencesStep
    \/ LoginStep

Spec == Init /\ [][Next]_vars

\* The store of a running network: its first ambassador, activated, is the
\* caller of the read-only routes.
SeedAmbassador ==
    [NewUser(1, "ambassador", NoId, 0) EXCEPT
        !.status = "active", !.ambassadorCode = <<"AMB", 0>>]

InitRead ==
    /\ users = [i \in {0} |-> SeedAmbassador]
    /\ nextId = 1
    /\ resp = Reply("none", 0, "", NoId)
    /\ reqs = NoReqs

NextRead ==
    \/ RegisterStep
    \/ EventStep
    \/ EarningsStep
    \/ NetworkStep
    \/ StatsStep
    \/ DownlineStep
    \/ DashboardStep

SpecRead == InitRead /\ [][NextRead]_vars

\* Requests interleaved at their awaits: registrations and deletions.
\* The emails of the registrations in flight that are not inserted yet.
EmailsInFlight ==
    {reqs[s].email : s \in {t \in Slots : reqs[t].kind = "register"}} \ {NoEmail}

\* The emails a concurrent registration is tried with: one that a request in
\* flight carries too, or the least one that is neither held nor in flight.
ConcEmailInputs ==
    LET free == Emails \ (HeldEmails(users) \cup EmailsInFlight)
    IN  EmailsInFlight \cup {e \in free : \A d \in free : e <= d}

\* Registrations in flight carry a role with a code and either no sponsor
\* code or one that is held when they start; none starts once the ids are spent.
RegStartStep ==
    /\ nextId < MaxUsers
    /\ \E s \in Slots, email \in ConcEmailInputs, role \in {"ambassador", "client"},
          sponsorCode \in {NoCode} \cup HeldCodes(users) :
           RegStart(s, email, role, sponsorCode)

RegFindSponsorStep == \E s \in Slots : RegFindSponsor(s)

RegPreSaveStep == \E s \in Slots, code \in Codes : RegPreSave(s, code)

RegInsertStep == \E s \in Slots : RegInsert(s)

RegSaveSponsorStep == \E s \in Slots, ok \in BOOLEAN : RegSaveSponsor(s, ok)

RegSaveUplineStep == \E s \in Slots : RegSaveUpline(s)

RegLastLoginStep == \E s \in Slots : RegLastLogin(s)

\* Deletions in flight are asked for stored users.
DelStartStep ==
    \E s \in Slots, caller \in Ids, userId \in Existing(users) :
        DelStart(s, caller, userId)

DelRemoveStep == \E s \in Slots : DelRemove(s)

\* The steps that continue the request of a slot.
Continue(s) ==
    \/ RegFindSponsor(s)
    \/ \E code \in Codes : RegPreSave(s, code)
    \/ RegInsert(s)
    \/ \E ok \in BOOLEAN : RegSaveSponsor(s, ok)
    \/ RegSaveUpline(s)
    \/ RegLastLogin(s)
    \/ DelRemove(s)

NextConc ==
    \/ RegStartStep
    \/ RegFindSponsorStep
    \/ RegPreSaveStep
    \/ RegInsertStep
    \/ RegSaveSponsorStep
    \/ RegSaveUplineStep
    \/ RegLastLoginStep
    \/ DelStartStep
    \/ DelRemoveStep

SpecConc == Init /\ [][NextConc]_vars

\* The event loop runs every continuation whose await has settled.
SpecConcFair == SpecConc /\ \A s \in Slots : WF_vars(Continue(s))

\* Registrations interleaved at their awaits in a running network: they are
\* tried with a held email too, and their sponsor is the first ambassador.
RegsStartStep ==
    /\ nextId < MaxUsers
    /\ \E s \in Slots, email \in HeldEmails(users) \cup ConcEmailInputs,
          role \in {"ambassador", "client"},
          sponsorCode \in {NoCode} \cup HeldCodes(users) :
           RegStart(s, email, role, sponsorCode)

NextRegs ==
    \/ RegsStartStep
    \/ RegFindSponsorStep
    \/ RegPreSaveStep
    \/ RegInsertStep
    \/ RegSaveSponsorStep
    \/ RegSaveUplineStep
    \/ RegLastLoginStep

SpecRegs == InitRead /\ [][NextRegs]_vars

\* =================================================================== claims
\* The sponsor of a stored node, when it is stored too.
HasSponsor(store, n) ==
    store[n].sponsorId # NoId /\ store[n].sponsorId \in Existing(store)

\* The nodes a node sponsors, directly or through others.
RECURSIVE Descendants(_, _)
Descendants(store, root) ==
    LET kids == {i \in Existing(store) : store[i].sponsorId = root}
    IN  kids \cup UNION {Descendants(store, k) : k \in kids}

\* A sum over the ids in S, running through the ids from k down to 0.
RECURSIVE Tally(_, _, _, _)
Tally(store, S, field, k) ==
    IF k < 0 THEN 0
    ELSE (IF k \in S THEN store[k][field] ELSE 0) + Tally(store, S, field, k - 1)

\* The last response is a successful one of the route.
Answered(op) == resp.op = op /\ resp.status = 200

\* C1: after a registration under sponsor S, the new node's upline is S.id
\* followed by S's upline, in that order (so in a chain A <- B <- C <- D the
\* upline of D is C, B, A).  Uplines are written once, so this is stated of
\* every stored node whose sponsor is stored.
C1_UplineIsSponsorThenItsUpline ==
    \A n \in Existing(users) :
        HasSponsor(users, n) =>
            users[n].upline =
                <<users[n].sponsorId>> \o users[users[n].sponsorId].upline

\* C2: a node registered without sponsor has level 0, a node registered under
\* S has level S.level + 1, and no operation changes the level of a node.
C2_LevelOfNode ==
    \A n \in Existing(users) :
        /\ users[n].sponsorId = NoId => users[n].level = 0
        /\ HasSponsor(users, n) =>
               users[n].level = users[users[n].sponsorId].level + 1

C2_LevelKept ==
    \A n \in Existing(users) \cap Existing(users') :
        users'[n].level = users[n].level

C3_DownlineIsInverseOfSponsor ==
    \A P \in Existing(users) : \A c \in Ids :
        c \in SeqToSet(users[P].downline)
            <=> (c \in Existing(users) /\ users[c].sponsorId = P)

\* C4: deleting a leaf that has a sponsor succeeds, removes the node from the
\* store and removes its id from its sponsor's downline: after a successful
\* delete the id is neither stored nor listed in a downline.
C4_DeleteUnlinksLeaf ==
    (resp.op = "delete" /\ resp.status = 200) =>
        /\ resp.id \notin Existing(users)
        /\ \A P \in Existing(users) : resp.id \notin SeqToSet(users[P].downline)

\* C5: deleting a node whose downline is not empty is refused and leaves the
\* store as it is: in every state, for every stored node with a downline.
C5_DeleteWithDownlineRefused ==
    \A u \in Existing(users) :
        Len(users[u].downline) > 0 =>
            LET out == DeleteOutcome(users, u)
            IN  /\ out.status = 400
                /\ out.error = "Cannot delete user with downline"
                /\ out.store = users

\* C5 witness: a delete of a stored node with a downline was refused.
C5_Witness ==
    /\ resp.op = "delete" /\ resp.status = 400
    /\ resp.id \in Existing(users)
    /\ Len(users[resp.id].downline) > 0

\* C6: a registration with a sponsor code that no node holds fails and leaves
\* the store as it is, and when the request is otherwise valid (an email that
\* nobody holds) it fails with the sponsor-not-found error: in every state,
\* for every request with such a code.
C6_UnknownSponsorRefused ==
    \A email \in Emails \cup {NoEmail}, role \in Roles,
       sponsorCode \in Codes \ HeldCodes(users) :
        \A code \in NewCodes(users, role) \cup {NoCode} :
            LET out == RegisterOutcome(users, nextId, email, role, sponsorCode, code)
            IN  /\ out.status = 400
                /\ out.store = users
                /\ (email # NoEmail /\ FindByEmail(users, email) = NoId)
                       => out.error = "Invalid sponsor code"

\* C6 witness: a registration was refused for its sponsor code while the
\* store held a node with a code.
C6_Witness ==
    /\ resp.op = "register" /\ resp.error = "Invalid sponsor code"
    /\ HeldCodes(users) # {}

BucketCount(buckets, key) ==
    LET hit == {k \in 1 .. Len(buckets) : buckets[k].id = key}
    IN  IF hit = {} THEN 0 ELSE buckets[Min(hit)].count

RECURSIVE SumCounts(_, _)
SumCounts(buckets, k) ==
    IF k = 0 THEN 0 ELSE buckets[k].count + SumCounts(buckets, k - 1)

\* C8: earningsByLevel puts every descendant of the caller, direct children
\* included, in the bucket of its level relative to the caller, and the
\* bucket counts add up to the number of descendants.
C8_BucketsCoverDescendants ==
    Answered("earnings") =>
        LET D == Descendants(users, resp.id)
            rel(d) == users[d].level - users[resp.id].level
        IN  /\ SumCounts(resp.earningsByLevel, Len(resp.earningsByLevel))
                  = Cardinality(D)
            /\ \A d \in D :
                  BucketCount(resp.earningsByLevel, rel(d))
                      = Cardinality({e \in D : rel(e) = rel(d)})

\* The depth budget of a network response: the integer of the query, or the
\* default without a query.
Budget(query) == IF query.kind = "absent" THEN DefaultLevels ELSE query.val

\* Every node of the view is depth levels below the root and within the
\* budget, and a node at the budget has no children in the view.
RECURSIVE ViewWithin(_, _, _, _)
ViewWithin(tree, root, depth, budget) ==
    \A k \in 1 .. Len(tree) :
        /\ depth <= budget
        /\ tree[k].id \in Existing(users)
        /\ users[tree[k].id].level = users[root].level + depth
        /\ depth = budget => tree[k].children = <<>>
        /\ ViewWithin(tree[k].children, root, depth + 1, budget)

\* C9: the network view holds no node more than maxDepth levels below the
\* root, and a node exactly maxDepth levels below has no children in the view.
C9_ViewWithinDepth ==
    (Answered("network") /\ resp.query.kind # "text") =>
        ViewWithin(resp.network, resp.id, 1, Budget(resp.query))

\* C9 witness: with levels = 1 the view shows a child that has children in
\* the store, with an empty list of children.
C9_Witness ==
    /\ Answered("network")
    /\ resp.query = [kind |-> "int", val |-> 1]
    /\ \E k \in 1 .. Len(resp.network) :
          /\ resp.network[k].children = <<>>
          /\ \E c \in Existing(users) : users[c].sponsorId = resp.network[k].id

\* C10: with maxDepth <= 0 the view is the root alone, whatever children the
\* root has in the store.
C10_NoChildrenWithoutBudget ==
    (Answered("network") /\ resp.query.kind = "int" /\ resp.query.val <= 0)
        => resp.network = <<>>

\* C10 witness: levels = 0 was asked by a root with children in the store.
C10_Witness ==
    /\ Answered("network")
    /\ resp.query = [kind |-> "int", val |-> 0]
    /\ \E c \in Existing(users) : users[c].sponsorId = resp.id

\* Following sponsorId links from a node reaches the target in at most fuel
\* steps.
RECURSIVE Reaches(_, _, _, _)
Reaches(store, from, target, fuel) ==
    IF fuel = 0 \/ from \notin Existing(store) THEN FALSE
    ELSE LET sid == store[from].sponsorId
         IN  sid = target \/ (sid # NoId /\ Reaches(store, sid, target, fuel - 1))

C12_NoOrphan ==
    \A n \in Existing(users) :
        users[n].sponsorId # NoId => users[n].sponsorId \in Existing(users)

\* The new id is in the downline of its sponsor.
Linked(store, sponsor, id) ==
    sponsor \in Existing(store) /\ id \in SeqToSet(store[sponsor].downline)

\* C13: when the save of the sponsor's downline does not go through after
\* the new node was stored, the registration ends there and answers with a
\* failure (500 'Registration failed'), never with success.
C13_SaveFailure ==
    \A s \in Slots :
        (/\ AtPc(s, "register", "saveSponsor")
         /\ reqs'[s] # reqs[s]
         /\ ~Linked(users', reqs[s].sponsor, reqs[s].id))
            => /\ reqs'[s] = Idle
               /\ resp' = RegistrationFailed(reqs[s].id)

C13_PartialWriteReported == [][C13_SaveFailure]_vars

\* C13 witness: a registration was answered with a failure for a node that is
\* stored under a stored sponsor whose downline does not list it.
C13_Witness ==
    /\ resp.op = "register" /\ resp.status = 500
    /\ resp.id \in Existing(users)
    /\ HasSponsor(users, resp.id)
    /\ ~Linked(users, users[resp.id].sponsorId, resp.id)

\* The codes a node holds, ambassadorCode and clientCode as one namespace.
CodesOf(store, n) == {store[n].ambassadorCode, store[n].clientCode} \ {NoCode}

\* C14: under any interleaving of registrations, no two distinct nodes hold
\* the same code, ambassadorCode and clientCode taken as one namespace.
C14_CodesUnique ==
    \A a, b \in Existing(users) :
        a # b => CodesOf(users, a) \cap CodesOf(users, b) = {}

\* C14 witness: a registration is about to insert a node with a code that a
\* stored node came to hold after the code was drawn.
C14_Witness ==
    \E s \in Slots :
        /\ AtPc(s, "register", "insert")
        /\ reqs[s].code # NoCode
        /\ FindByCode(users, reqs[s].code) # NoId

\* A registration is in the loop of generateUniqueCode.
Generating(s) == AtPc(s, "register", "preSave")

\* C15: code generation at registration always ends: a registration in the
\* loop leaves it, with a code or with an error.
C15_CodeGenerationEnds == \A s \in Slots : Generating(s) ~> ~Generating(s)

\* The routes that only read the store.
ReadOps == {"earnings", "stats", "network", "downline", "dashboard"}

\* C16: the read routes (GET /earnings, /stats, /network, /downline and the
\* dashboard) leave the store as it was, every node and every field.
C16_ReadKeepsStore == resp'.op \in ReadOps => users' = users

C16_ReadsAreReadOnly == [][C16_ReadKeepsStore]_vars

\* C16 witness: the dashboard was given to a caller whose downline holds
\* earnings.
C16_Witness ==
    /\ Answered("dashboard")
    /\ resp.stats.downlineCount > 0
    /\ resp.stats.totalDownlineEarnings > 0

Persisted(s, n, S) ==
    /\ AtPc(s, "register", "saveSponsor")
    /\ reqs[s].id = n
    /\ reqs[s].sponsor = S

\* C18: a registration that stored a new node under sponsor S goes on, unless
\* a failure ends it, to a state where S's downline lists the node; and a
\* registration answered with success has its node in its sponsor's downline.
C18_Completed ==
    (/\ resp.op = "register" /\ resp.status = 201
     /\ resp.id \in Existing(users)
     /\ HasSponsor(users, resp.id))
        => Linked(users, users[resp.id].sponsorId, resp.id)

C18_DownlineEventuallyUpdated ==
    /\ []C18_Completed
    /\ \A s \in Slots, n \in Ids, S \in Ids :
           Persisted(s, n, S) ~> (Linked(users, S, n) \/ resp = RegistrationFailed(n))

\* C18 witness: a reader sees the new node stored under S while S's downline
\* does not list it yet, the registration being about to save S.
C18_Witness ==
    \E s \in Slots :
        /\ AtPc(s, "register", "saveSponsor")
        /\ reqs[s].id \in Existing(users)
        /\ reqs[s].sponsor \in Existing(users)
        /\ ~Linked(users, reqs[s].sponsor, reqs[s].id)

\* C19: for a caller that sponsors nobody, the flat summary and the
\* statistics are answered with count 0, earnings 0 and purchases 0.
C19_NoDescendantsZeroTotals ==
    /\ (Answered("earnings") /\ Descendants(users, resp.id) = {}) =>
           resp.summary =
               [totalEarnings |-> 0, totalPurchases |-> 0, memberCount |-> 0]
    /\ (Answered("stats") /\ Descendants(users, resp.id) = {}) =>
           /\ resp.basic.totalMembers = 0
           /\ resp.basic.totalEarnings = 0
           /\ resp.basic.totalPurchases = 0

\* C19 witness: the summary was given to a caller that sponsors nobody and
\* holds earnings itself, in a store with other nodes.
C19_Witness ==
    /\ Answered("earnings")
    /\ Descendants(users, resp.id) = {}
    /\ users[resp.id].totalEarnings > 0
    /\ Cardinality(Existing(users)) > 1

\* The fields of a node that are fixed at creation.
FixedFields == {"role", "ambassadorCode", "clientCode", "sponsorId", "level"}

\* The sensitive fields a document of the store carries.
GuardedFields == SensitiveFields \cap DOMAIN SeedAdmin

\* C20: no step changes the role, code, sponsorId or level of a stored node
\* (its id is its key in the store), and a profile update leaves every
\* sensitive field of its target as it was, whatever the body names.
C20_Kept ==
    /\ \A n \in Existing(users) \cap Existing(users') :
           \A f \in FixedFields : users'[n][f] = users[n][f]
    /\ resp'.op = "profile" =>
           \A n \in Existing(users) :
               /\ n \in Existing(users')
               /\ \A f \in GuardedFields : users'[n][f] = users[n][f]

C21_StatusGatesAuthentication ==
    /\ (resp.op = "login" /\ resp.status = 200) => users[resp.id].status = "active"
    /\ \A u \in Existing(users) :
           /\ Authorize(users, u, {}).status = 200 => users[u].status = "active"
           /\ LoginOutcome(users, users[u].email, TRUE).status = 200
                  => users[u].status = "active"
           /\ \A st \in Statuses \ {"active"} :
                  LET store == SetStatus(users, u, st)
                  IN  /\ Authorize(store, u, {}).status = 403
                      /\ LoginOutcome(store, users[u].email, TRUE).status = 403

\* C21 witness: the login of a user who was let in before, and is pending
\* now, was refused for its status.
C21_Witness ==
    /\ resp.op = "login" /\ resp.status = 403
    /\ users[resp.id].role = "admin"
    /\ users[resp.id].status = "pending"

\* The store after differs from the store before in the status of the target
\* at most.
OnlyStatusOf(before, after, target) ==
    /\ Existing(after) = Existing(before)
    /\ \A n \in Existing(before) :
           /\ n # target => after[n] = before[n]
           /\ \A f \in DOMAIN before[n] \ {"status"} : after[n][f] = before[n][f]

\* C22: a status update changes the status field of its target and nothing
\* else (sponsorId, upline, downline, level and every other node are as they
\* were), and a value outside active, inactive, pending is refused with the
\* store unchanged.
C22_StatusOutcomes ==
    \A u \in Ids :
        /\ StatusOutcome(users, u, "bogus") =
               [store |-> users, status |-> 400, error |-> "Invalid status"]
        /\ \A st \in Statuses :
               OnlyStatusOf(users, StatusOutcome(users, u, st).store, u)

C22_StatusStepFrame ==
    resp'.op = "status" =>
        /\ OnlyStatusOf(users, users', resp'.id)
        /\ resp'.status # 200 => users' = users

C22_StatusUpdateOnlyStatus == []C22_StatusOutcomes /\ [][C22_StatusStepFrame]_vars

\* C22 witness: the status of a node with a sponsor was set to active.
C22_Witness ==
    /\ resp.op = "status" /\ resp.status = 200
    /\ resp.id \in Existing(users)
    /\ users[resp.id].status = "active"
    /\ HasSponsor(users, resp.id)

C26_DeleteIffNoChildren ==
    \A u \in Existing(users) :
        DeleteOutcome(users, u).status = 200 <=> MatchSponsor(users, u) = {}

\* Some stored admin is active.
ActiveAdmin(store) ==
    \E a \in Existing(store) :
        store[a].role = "admin" /\ store[a].status = "active"

\* The node is active after the step and was not before (or was not stored).
Activated(n) ==
    /\ n \in Existing(users') /\ users'[n].status = "active"
    /\ n \in Existing(users) => users[n].status # "active"

\* C27: a new node is pending, and a node becomes active only by a status
\* update made while an active admin is stored; so from a store without an
\* active user no step makes a user active.
C27_ActivationStep ==
    /\ \A n \in Existing(users') \ Existing(users) : users'[n].status = "pending"
    /\ \A n \in Ids :
           Activated(n) => (resp'.op = "status" /\ ActiveAdmin(users))
    /\ (\A n \in Existing(users) : users[n].status # "active")
           => (\A n \in Existing(users') : users'[n].status # "active")

C24_ChildStoredBeforeListed ==
    \A P \in Existing(users) :
        \A c \in SeqToSet(users[P].downline) :
            /\ c \in 0 .. (nextId - 1)
            /\ c \in Existing(users) => users[c].sponsorId = P

\* C24 witness: a registration in flight has pushed its stored node on the
\* downline of its sponsor and has not answered yet.
C24_Witness ==
    \E s \in Slots :
        /\ AtPc(s, "register", "saveUpline")
        /\ reqs[s].id \in Existing(users)
        /\ users[reqs[s].id].sponsorId = reqs[s].sponsor
        /\ Linked(users, reqs[s].sponsor, reqs[s].id)

\* The sequence a is a prefix of the sequence b.
IsPrefix(a, b) == Len(a) <= Len(b) /\ \A i \in 1 .. Len(a) : a[i] = b[i]

\* A step appends to downlines only, and the step that answers a sponsored
\* registration with success leaves the node in the downline of its sponsor.
C25_AppendKept ==
    /\ \A P \in Existing(users) :
           P \in Existing(users') /\ IsPrefix(users[P].downline, users'[P].downline)
    /\ (/\ resp'.op = "register" /\ resp'.status = 201
        /\ HasSponsor(users', resp'.id))
           => Linked(users', users'[resp'.id].sponsorId, resp'.id)

\* C25: when two registrations under the same sponsor S are in flight
\* together and both answer with success, the downline of S lists both new
\* nodes: a success is answered only once the node is listed, and no later
\* write drops an id from a downline.
C25_NoLostAppend == [][C25_AppendKept]_vars

\* C25 witness: two registrations in flight resolved the same sponsor before
\* either wrote, and both have pushed their node on its downline.
C25_Witness ==
    \E s, t \in Slots :
        /\ s # t
        /\ AtPc(s, "register", "lastLogin") /\ AtPc(t, "register", "lastLogin")
        /\ reqs[s].sponsor # NoId /\ reqs[s].sponsor = reqs[t].sponsor
        /\ Linked(users, reqs[s].sponsor, reqs[s].id)
        /\ Linked(users, reqs[t].sponsor, reqs[t].id)

\* With a held email the handler answers 400 'User already exists' and
\* leaves the store as it is; no two stored nodes hold the same email; every
\* id in a downline is the id of a stored node.
C28_EmailHeld ==
    /\ \A e \in HeldEmails(users), role \in Roles, c \in {NoCode} \cup Codes :
           LET out == RegisterOutcome(users, nextId, e, role, c, NoCode)
           IN  /\ out.status = 400 /\ out.error = "User already exists"
               /\ out.store = users
    /\ \A a, b \in Existing(users) : a # b => users[a].email # users[b].email
    /\ \A P \in Existing(users) : SeqToSet(users[P].downline) \subseteq Existing(users)

\* The step that answers 'User already exists' writes nothing.
C28_RefusalStep ==
    (resp' = Reply("register", 400, "User already exists", NoId) /\ reqs' = reqs)
        => UNCHANGED <<users, nextId>>

\* C28: a registration with a held email is answered 'User already exists'
\* and changes nothing; under any interleaving of registrations with the
\* same email at most one node holds the email and every downline lists
\* stored nodes only.
C28_DuplicateEmailRefused == []C28_EmailHeld /\ [][C28_RefusalStep]_vars

\* C28 witness: a registration that passed the email check is about to
\* insert while another one has stored a node with the same email.
C28_Witness ==
    \E s \in Slots :
        /\ AtPc(s, "register", "insert")
        /\ FindByEmail(users, reqs[s].email) # NoId

====
